---- MODULE Spec2Model ----
(***************************************************************************)
(* Project Drishti: the feature builder (preprocessing.py) and the         *)
(* anomaly scorer (engine.py) as a state machine.                          *)
(*                                                                         *)
(* A data frame is [columns, rows]: columns is the ordered list of column  *)
(* names, a row is a function from the column names to cells.  A column    *)
(* name is the sequence of its "_"-separated tokens, so that Python's      *)
(* substring tests ('bio' in c, '17' in c, 'bio_age' in c) are contiguous  *)
(* token matches.  A cell is Num(n, d), the number n/d, or Str(s).         *)
(* The raw records carry state only; district is aggregated by the same    *)
(* 'first' rule and is left out.  All raw records carry the same date.     *)
(***************************************************************************)
EXTENDS Integers, Sequences, FiniteSets, TLC

\* ------------------------------------------------------------------ bounds
MaxFiles == 3
MaxRows == 1
MaxCount == 1

Pincodes == {110001, 560001}
States == {"Delhi", "DL"}
Counts == 0..MaxCount

\* ------------------------------------------------------------ cell values
Num(n, d) == <<"num", n, d>>
Str(s) == <<"str", s>>
Zero == Num(0, 1)
IsNum(c) == c[1] = "num"

\* ----------------------------------------------------------- column names
ColPincode == <<"pincode">>
ColChild == <<"age", "0", "5">>
ColAdult == <<"age", "18", "greater">>
ColState == <<"state">>
ColSpike == <<"adult", "spike", "ratio">>
ColVelocity == <<"velocity", "index">>
ColGhost == <<"ghost", "ratio">>
ColLabel == <<"anomaly", "label">>
ColScore == <<"anomaly", "score">>
ColFactor == <<"primary", "risk", "factor">>
ColRisk == <<"risk", "status">>

Range(s) == {s[i] : i \in 1..Len(s)}

\* Python's `pat in name` on the token sequences
Contains(name, pat) ==
    \E i \in 0..(Len(name) - Len(pat)) :
        \A j \in 1..Len(pat) : name[i + j] = pat[j]

\* [c for c in columns if p(c)], as the indices kept, in order
RECURSIVE Filter(_, _)
Filter(s, keep) ==
    IF s = <<>> THEN <<>>
    ELSE IF Head(s) \in keep THEN <<Head(s)>> \o Filter(Tail(s), keep)
    ELSE Filter(Tail(s), keep)

\* the elements of a finite set of integers in ascending order
RECURSIVE SortedSeq(_)
SortedSeq(S) ==
    IF S = {} THEN <<>>
    ELSE LET m == CHOOSE x \in S : \A y \in S : x <= y
         IN <<m>> \o SortedSeq(S \ {m})

RECURSIVE SumSeq(_)
SumSeq(s) == IF s = <<>> THEN 0 ELSE Head(s) + SumSeq(Tail(s))

RECURSIVE Flatten(_)
Flatten(ss) == IF ss = <<>> THEN <<>> ELSE Head(ss) \o Flatten(Tail(ss))

\* the elements of s, each once, in order of first appearance
RECURSIVE Dedup(_)
Dedup(s) ==
    IF s = <<>> THEN <<>>
    ELSE LET d == Dedup(SubSeq(s, 1, Len(s) - 1))
         IN IF s[Len(s)] \in Range(d) THEN d ELSE Append(d, s[Len(s)])

\* ------------------------------------------------------------- raw inputs
Categories == {"enrolment", "biometric", "demographic"}

ColBio517 == <<"bio", "age", "5", "17">>
ColBio17 == <<"bio", "age", "17">>
ColBioU5 == <<"bio", "age", "0", "5">>
ColDemo517 == <<"demo", "age", "5", "17">>
ColDemo17 == <<"demo", "age", "17">>
ColDemoU5 == <<"demo", "age", "0", "5">>

\* the bracket columns a file of a category may carry (its header)
Schemas(kind) ==
    IF kind = "enrolment" THEN {<<ColChild, ColAdult>>}
    ELSE IF kind = "biometric" THEN {<<ColBio517, ColBio17>>, <<ColBioU5>>}
    ELSE {<<ColDemo517, ColDemo17>>, <<ColDemoU5>>}

\* enrolment records disagree on the spelling of the state; the update
\* records are drawn with one spelling
RecordStates(kind) == IF kind = "enrolment" THEN States ELSE {"Delhi"}

Records(kind, cols) ==
    [pincode : Pincodes, state : RecordStates(kind), val : [Range(cols) -> Counts]]

RowSeqs(R) == UNION {[1..n -> R] : n \in 0..MaxRows}

\* the files os.listdir may yield: unreadable ones, ones whose name holds
\* no category keyword, and readable ones of each category
FileCatalogue ==
    {[kind |-> k, readable |-> FALSE, cols |-> <<>>, rows |-> <<>>] : k \in Categories}
    \cup {[kind |-> "other", readable |-> TRUE, cols |-> <<>>, rows |-> <<>>]}
    \cup UNION {UNION {{[kind |-> k, readable |-> TRUE, cols |-> cs, rows |-> rs] :
                          rs \in RowSeqs(Records(k, cs))} : cs \in Schemas(k)} :
                k \in Categories}

\* ------------------------------------------------------------ data frames
NaN == <<"nan">>
EmptyFrame == [columns |-> <<>>, rows |-> <<>>]
HasCol(df, c) == c \in Range(df.columns)

\* pd.read_csv of a readable file: its header and its rows
ReadCsv(f) == [cols |-> f.cols, rows |-> f.rows]

\* pd.concat(dfs, ignore_index=True) if dfs else pd.DataFrame()
Concat(dfs) ==
    [cols |-> Dedup(Flatten([i \in 1..Len(dfs) |-> dfs[i].cols])),
     rows |-> Flatten([i \in 1..Len(dfs) |-> dfs[i].rows])]

\* DataFrame.empty
IsEmpty(raw) == raw.rows = <<>>

KeysOf(raw) == {raw.rows[i].pincode : i \in 1..Len(raw.rows)}

\* groupby(key)[c].sum(): a record of a file without column c holds NaN
\* there, which sum skips
GroupSum(raw, c, k) ==
    SumSeq([i \in 1..Len(raw.rows) |->
              IF raw.rows[i].pincode = k /\ c \in DOMAIN raw.rows[i].val
              THEN raw.rows[i].val[c] ELSE 0])

\* groupby(key).agg('first')
GroupFirst(raw, k) ==
    LET i == CHOOSE j \in 1..Len(raw.rows) :
                 /\ raw.rows[j].pincode = k
                 /\ \A h \in 1..(j - 1) : raw.rows[h].pincode # k
    IN raw.rows[i].state

\* Enrolment Summary
EnrolGrouped(raw) ==
    IF ~IsEmpty(raw)
    THEN LET ks == SortedSeq(KeysOf(raw))
         IN [columns |-> <<ColPincode, ColChild, ColAdult, ColState>>,
             rows |-> [i \in 1..Len(ks) |->
                 (ColPincode :> Num(ks[i], 1))
                 @@ (ColChild :> Num(GroupSum(raw, ColChild, ks[i]), 1))
                 @@ (ColAdult :> Num(GroupSum(raw, ColAdult, ks[i]), 1))
                 @@ (ColState :> Str(GroupFirst(raw, ks[i])))]]
    ELSE [columns |-> <<ColPincode>>, rows |-> <<>>]

\* Biometric / Demographic Summary: the columns whose name holds the marker
BracketGrouped(raw, marker) ==
    IF ~IsEmpty(raw)
    THEN LET ks == SortedSeq(KeysOf(raw))
             cs == Filter(raw.cols, {c \in Range(raw.cols) : Contains(c, marker)})
         IN [columns |-> <<ColPincode>> \o cs,
             rows |-> [i \in 1..Len(ks) |->
                 [c \in {ColPincode} \cup Range(cs) |->
                     IF c = ColPincode THEN Num(ks[i], 1)
                     ELSE Num(GroupSum(raw, c, ks[i]), 1)]]]
    ELSE [columns |-> <<ColPincode>>, rows |-> <<>>]

FrameKeys(df) == {df.rows[i][ColPincode][2] : i \in 1..Len(df.rows)}

RowOf(df, k) == df.rows[CHOOSE i \in 1..Len(df.rows) : df.rows[i][ColPincode][2] = k]

\* Merge with the keys of the two sides appended instead of united
MergeAppendKeys(left, right) ==
    LET ks == SortedSeq(FrameKeys(left)) \o SortedSeq(FrameKeys(right))
        rcols == Filter(right.columns, Range(right.columns) \ {ColPincode})
        cols == left.columns \o rcols
    IN [columns |-> cols,
        rows |-> [i \in 1..Len(ks) |->
            [c \in Range(cols) |->
                IF c = ColPincode THEN Num(ks[i], 1)
                ELSE IF c \in Range(left.columns)
                     THEN IF ks[i] \in FrameKeys(left) THEN RowOf(left, ks[i])[c] ELSE NaN
                     ELSE IF ks[i] \in FrameKeys(right) THEN RowOf(right, ks[i])[c] ELSE NaN]]]

\* pd.merge(left, right, on='pincode', how='outer'): the union of the keys
\* in ascending order, NaN where a side has no row for the key
Merge(left, right) ==
    LET ks == SortedSeq(FrameKeys(left) \cup FrameKeys(right))
        rcols == Filter(right.columns, Range(right.columns) \ {ColPincode})
        cols == left.columns \o rcols
    IN [columns |-> cols,
        rows |-> [i \in 1..Len(ks) |->
            [c \in Range(cols) |->
                IF c = ColPincode THEN Num(ks[i], 1)
                ELSE IF c \in Range(left.columns)
                     THEN IF ks[i] \in FrameKeys(left) THEN RowOf(left, ks[i])[c] ELSE NaN
                     ELSE IF ks[i] \in FrameKeys(right) THEN RowOf(right, ks[i])[c] ELSE NaN]]]

\* DataFrame.fillna(0)
FillNa(df) ==
    [columns |-> df.columns,
     rows |-> [i \in 1..Len(df.rows) |->
         [c \in Range(df.columns) |-> IF df.rows[i][c] = NaN THEN Zero ELSE df.rows[i][c]]]]

\* df[c] = vals, one value per row
WithColumn(df, c, vals) ==
    [columns |-> IF HasCol(df, c) THEN df.columns ELSE Append(df.columns, c),
     rows |-> [i \in 1..Len(df.rows) |->
         [d \in Range(df.columns) \cup {c} |-> IF d = c THEN vals[i] ELSE df.rows[i][d]]]]

\* MasterMerge with how='inner': only the pincodes all three frames hold
MasterMergeInner(enrol, bio, demo) ==
    LET e == EnrolGrouped(enrol)
        b == BracketGrouped(bio, <<"bio", "age">>)
        d == BracketGrouped(demo, <<"demo", "age">>)
        full == FillNa(Merge(FillNa(Merge(e, b)), d))
        ks == SortedSeq(FrameKeys(e) \cap FrameKeys(b) \cap FrameKeys(d))
    IN [columns |-> full.columns, rows |-> [i \in 1..Len(ks) |-> RowOf(full, ks[i])]]

\* Master Merge
MasterMerge(enrol, bio, demo) ==
    FillNa(Merge(FillNa(Merge(EnrolGrouped(enrol), BracketGrouped(bio, <<"bio", "age">>))),
                 BracketGrouped(demo, <<"demo", "age">>)))

\* SpikeRatio without the +1 offset
SpikeRatioNoOffset(row) == Num(row[ColAdult][2], row[ColChild][2] + row[ColAdult][2])

\* Feature 1: adult / (child + adult + 1), or 0.0 without the enrolment columns
\* a column of 0.0
Zeros(df) == [i \in 1..Len(df.rows) |-> Zero]
SpikeRatio(row) == Num(row[ColAdult][2], row[ColChild][2] + row[ColAdult][2] + 1)

AdultSpike(df) ==
    IF HasCol(df, ColChild) /\ HasCol(df, ColAdult)
    THEN WithColumn(df, ColSpike, [i \in 1..Len(df.rows) |-> SpikeRatio(df.rows[i])])
    ELSE WithColumn(df, ColSpike, Zeros(df))

\* [c for c in master_df.columns if marker in c and '17' in c]
AdultCols(df, marker) ==
    Filter(df.columns, {c \in Range(df.columns) : Contains(c, marker) /\ Contains(c, <<"17">>)})

\* whether the [0] of either lookup raises IndexError
AdultColsMissing(df) ==
    AdultCols(df, <<"bio">>) = <<>> \/ AdultCols(df, <<"demo">>) = <<>>

\* VelocityGhost whose fallback keeps the adult column that was found
VelocityGhostPartial(df) ==
    LET bs == AdultCols(df, <<"bio">>)
        ds == AdultCols(df, <<"demo">>)
        B(row) == IF bs = <<>> THEN 0 ELSE row[bs[1]][2]
        D(row) == IF ds = <<>> THEN 0 ELSE row[ds[1]][2]
    IN WithColumn(WithColumn(df, ColVelocity,
                             [i \in 1..Len(df.rows) |-> Num(B(df.rows[i]) + D(df.rows[i]), 1)]),
                  ColGhost, [i \in 1..Len(df.rows) |-> Num(D(df.rows[i]), B(df.rows[i]) + 1)])

\* Feature 2 & 3, with the IndexError fallback
VelocityGhost(df) ==
    IF AdultColsMissing(df)
    THEN WithColumn(WithColumn(df, ColVelocity, Zeros(df)), ColGhost, Zeros(df))
    ELSE LET b == AdultCols(df, <<"bio">>)[1]
             d == AdultCols(df, <<"demo">>)[1]
         IN WithColumn(WithColumn(df, ColVelocity,
                                  [i \in 1..Len(df.rows) |-> Num(df.rows[i][b][2] + df.rows[i][d][2], 1)]),
                       ColGhost,
                       [i \in 1..Len(df.rows) |-> Num(df.rows[i][d][2], df.rows[i][b][2] + 1)])

\* PART 2 of load_and_merge_data: the table it returns
FeatureTable(enrol, bio, demo) ==
    VelocityGhost(AdultSpike(MasterMerge(enrol, bio, demo)))

\* PART 1: the daily series; every record carries the one date, so the
\* series has one row, y = all biometric + all demographic bracket counts
BracketTotal(raw, marker) ==
    SumSeq([i \in 1..Len(raw.rows) |->
        SumSeq([j \in 1..Len(raw.cols) |->
            IF Contains(raw.cols[j], marker) /\ raw.cols[j] \in DOMAIN raw.rows[i].val
            THEN raw.rows[i].val[raw.cols[j]] ELSE 0])])

TimeSeries(bio, demo) ==
    IF IsEmpty(bio) /\ IsEmpty(demo) THEN <<>>
    ELSE <<[ds |-> "d1",
            y |-> BracketTotal(bio, <<"bio", "age">>) + BracketTotal(demo, <<"demo", "age">>)]>>

\* ------------------------------------------------------ the anomaly scorer
\* the tables an earlier preprocessing.py run may have saved: no region,
\* one region, two regions with equal and with different vectors, and a
\* table built without any enrolment record (it has no state column)
NoRaw == [cols |-> <<>>, rows |-> <<>>]

EnrolRow(p, a) == [pincode |-> p, state |-> "Delhi", val |-> (ColChild :> 0) @@ (ColAdult :> a)]
EnrolRaw(rs) == [cols |-> <<ColChild, ColAdult>>, rows |-> rs]
BioRaw(p, b) ==
    [cols |-> <<ColBio517, ColBio17>>,
     rows |-> <<[pincode |-> p, state |-> "Delhi", val |-> (ColBio517 :> b) @@ (ColBio17 :> 0)]>>]

EngineTables ==
    {FeatureTable(NoRaw, NoRaw, NoRaw),
     FeatureTable(EnrolRaw(<<EnrolRow(110001, 1)>>), NoRaw, NoRaw),
     FeatureTable(EnrolRaw(<<EnrolRow(110001, 0), EnrolRow(560001, 0)>>), NoRaw, NoRaw),
     FeatureTable(EnrolRaw(<<EnrolRow(110001, 0), EnrolRow(560001, 1)>>), NoRaw, NoRaw),
     FeatureTable(NoRaw, BioRaw(110001, 1), NoRaw)}

\* features = ['adult_spike_ratio', 'velocity_index', 'ghost_ratio']
features == <<ColSpike, ColVelocity, ColGhost>>

\* contamination=0.01, in percent
DefaultContamination == 1

\* the raw scores (score_samples) a fitted forest may give a region, and the
\* attributions the tree explainer may give one feature of one region
ScoreVals == {1, 2}
ShapVals == {-1, 0, 1}

\* random_state of the forest
RandomState == 42

\* FitScores with random_state=None: every fit draws a fresh forest
FitScoresUnseeded(X, random_state, memo) == [1..Len(X) -> ScoreVals]

\* the raw scores model.fit(X) may lead to.  With an integer random_state the
\* forest is a function of X, so a fit of rows already fitted repeats the
\* scores it gave before; what that function is, the model leaves open.
FitScores(X, random_state, memo) ==
    IF random_state \in Int /\ memo.fit # <<>> /\ memo.fit[1].X = X
    THEN {memo.fit[1].scores}
    ELSE [1..Len(X) -> ScoreVals]

\* the attributions explainer.shap_values(X) may return: the tree explainer
\* is a function of the fitted model and the rows
ShapRows(m, X, memo) ==
    IF memo.shap # <<>> /\ memo.shap[1].model = m /\ memo.shap[1].X = X
    THEN {memo.shap[1].sv}
    ELSE [1..Len(X) -> [1..3 -> ShapVals]]

\* ExplainerModel building the explainer on a forest created anew with
\* contamination='auto' (offset_ = -0.5)
ExplainerModelRecreated(m) == [m EXCEPT !.offset100 = -50]

\* line 40: the model handed to shap.TreeExplainer
ExplainerModel(m) == m

\* PassedByReference with train_and_score working on df.copy()
PassedByCopy(callee, caller) == caller

\* train_and_score assigns its columns to the df object it was passed: what
\* the caller's variable shows once the callee's df has become `callee`
PassedByReference(callee, caller) == callee

\* pd.read_csv of a table saved with to_csv(index=False)
ReadTable(content) == content[1]

\* X = df[features].fillna(0)
FeatureMatrix(t) ==
    [i \in 1..Len(t.rows) |->
        [j \in 1..3 |-> IF t.rows[i][features[j]] = NaN THEN Zero ELSE t.rows[i][features[j]]]]

\* sklearn's input validation: fit raises ValueError on an array with no sample
FitRaises(X) == Len(X) = 0

\* s in ascending order
RECURSIVE Ascending(_)
Ascending(s) ==
    IF s = <<>> THEN <<>>
    ELSE LET i == CHOOSE j \in 1..Len(s) : \A h \in 1..Len(s) : s[j] <= s[h]
         IN <<s[i]>> \o Ascending(SubSeq(s, 1, i - 1) \o SubSeq(s, i + 1, Len(s)))

\* Percentile100 taken at 100 - c, the share of normal regions
PercentileOfNormal100(scores, c) ==
    LET srt == Ascending(scores)
        n == Len(scores)
        lo == ((100 - c) * (n - 1)) \div 100
        fr == ((100 - c) * (n - 1)) % 100
    IN IF lo + 2 <= n
       THEN 100 * srt[lo + 1] + fr * (srt[lo + 2] - srt[lo + 1])
       ELSE 100 * srt[lo + 1]

\* 100 * np.percentile(scores, c), linear interpolation between the ranks
Percentile100(scores, c) ==
    LET srt == Ascending(scores)
        n == Len(scores)
        lo == (c * (n - 1)) \div 100
        fr == (c * (n - 1)) % 100
    IN IF lo + 2 <= n
       THEN 100 * srt[lo + 1] + fr * (srt[lo + 2] - srt[lo + 1])
       ELSE 100 * srt[lo + 1]

\* IsolationForest(contamination=c).fit(X): offset_ is the c-percentile of
\* the training scores
Fitted(X, scores, c) ==
    [X |-> X, scores |-> scores, offset100 |-> Percentile100(scores, c)]

\* 100 * model.decision_function(X)[i] = score_samples - offset_
Decision100(m, i) == 100 * m.scores[i] - m.offset100

\* model.predict(X)[i]: -1 where the decision function is negative
Predict(m, i) == IF Decision100(m, i) < 0 THEN -1 ELSE 1

Abs(x) == IF x < 0 THEN -x ELSE x

\* IdxMax returning the last position of the maximum
IdxMaxLast(v) == CHOOSE j \in 1..3 : (\A h \in 1..3 : v[j] >= v[h]) /\ (\A h \in (j + 1)..3 : v[h] < v[j])

\* Series.idxmax over the three attributions: the first position of the maximum
IdxMax(v) == CHOOSE j \in 1..3 : (\A h \in 1..3 : v[j] >= v[h]) /\ (\A h \in 1..(j - 1) : v[h] < v[j])

\* shap_df.abs().idxmax(axis=1)
PrimaryRiskFactor(sv) == features[IdxMax([j \in 1..3 |-> Abs(sv[j])])]

\* RiskStatus testing for the wrong label
RiskStatusInverted(label) == IF label = Num(1, 1) THEN Str("CRITICAL") ELSE Str("Low")

\* lambda x: 'CRITICAL' if x == -1 else 'Low'
RiskStatus(label) == IF label = Num(-1, 1) THEN Str("CRITICAL") ELSE Str("Low")

\* the columns the report of engine.py line 79 selects
ReportColumns == {ColPincode, ColState, ColVelocity, ColGhost, ColFactor}

\* -------------------------------------------------- geocoder, dashboard
ColLat == <<"lat">>
ColLon == <<"lon">>
ColGeoAccuracy == <<"geo", "accuracy">>

\* the location the geocoding service returns for a query it can resolve
Located == [lat |-> Num(286139, 10000), lon |-> Num(772090, 10000)]

\* critical_mask: the rows whose risk_status is CRITICAL
CriticalRows(t) == {i \in 1..Len(t.rows) : t.rows[i][ColRisk] = Str("CRITICAL")}

\* GeocodedTable keeping the critical rows only
GeocodedCriticalOnly(t, found) ==
    LET crit == SortedSeq(CriticalRows(t))
        cols == t.columns \o <<ColLat, ColLon, ColGeoAccuracy>>
    IN [columns |-> cols,
        rows |-> [h \in 1..Len(crit) |->
            [c \in Range(cols) |->
                IF c = ColLat THEN (IF found[crit[h]] THEN Located.lat ELSE Zero)
                ELSE IF c = ColLon THEN (IF found[crit[h]] THEN Located.lon ELSE Zero)
                ELSE IF c = ColGeoAccuracy THEN (IF found[crit[h]] THEN Str("High") ELSE Str("Low"))
                ELSE t.rows[crit[h]][c]]]]

\* geocoder.py lines 59-69: every row of the table read, lat and lon 0.0
\* except where a critical row was located, geo_accuracy set on the critical
\* rows (a column that exists only if there is one)
GeocodedTable(t, found) ==
    LET crit == CriticalRows(t)
        zeroed == WithColumn(WithColumn(t, ColLat, Zeros(t)), ColLon, Zeros(t))
        lats == [i \in 1..Len(t.rows) |-> IF i \in crit /\ found[i] THEN Located.lat ELSE Zero]
        lons == [i \in 1..Len(t.rows) |-> IF i \in crit /\ found[i] THEN Located.lon ELSE Zero]
        accs == [i \in 1..Len(t.rows) |->
                    IF i \in crit THEN (IF found[i] THEN Str("High") ELSE Str("Low")) ELSE NaN]
        placed == WithColumn(WithColumn(zeroed, ColLat, lats), ColLon, lons)
    IN IF crit = {} THEN zeroed ELSE WithColumn(placed, ColGeoAccuracy, accs)

\* app.py lines 80-97: the geocoded table if there is one, else the final
\* table, else an empty frame
LoadDataEngine(dsk) ==
    IF dsk.final_scored_data_geocoded # <<>> THEN ReadTable(dsk.final_scored_data_geocoded)
    ELSE IF dsk.final_scored_data # <<>> THEN ReadTable(dsk.final_scored_data)
    ELSE EmptyFrame

\* state_coords.get(row['state'], [20.5937, 78.9629]), in 1/10000 degree; of
\* the nine states listed only Delhi occurs in the records drawn
StateCoords(state) ==
    IF state = Str("Delhi") THEN <<287041, 771025>> ELSE <<205937, 789629>>

\* fill_coords: real coordinates are kept, others simulated from the state
\* and the pincode
FillCoords(row) ==
    IF row[ColLat] # NaN /\ row[ColLat] # Zero
    THEN <<row[ColLat], row[ColLon]>>
    ELSE LET base == StateCoords(row[ColState])
         IN <<Num(base[1] + (row[ColPincode][2] % 100) * 10, 10000),
              Num(base[2] + (row[ColPincode][2] % 200) * 10, 10000)>>

\* app.py lines 111-144
ProcessCoordinates(t) ==
    IF t.rows = <<>> THEN t
    ELSE LET a == IF HasCol(t, ColLat) THEN t ELSE WithColumn(t, ColLat, Zeros(t))
             b == IF HasCol(a, ColLon) THEN a ELSE WithColumn(a, ColLon, Zeros(a))
             c == IF HasCol(b, ColGeoAccuracy) THEN b
                  ELSE WithColumn(b, ColGeoAccuracy, [i \in 1..Len(b.rows) |-> Str("Low")])
             coords == [i \in 1..Len(c.rows) |-> FillCoords(c.rows[i])]
         IN WithColumn(WithColumn(c, ColLat, [i \in 1..Len(c.rows) |-> coords[i][1]]),
                       ColLon, [i \in 1..Len(c.rows) |-> coords[i][2]])

\* ------------------------------------------------------------------ state
VARIABLES
    pc,          \* where the running script stands
    stage,       \* the pipeline state reached: RAW, FEATURED, SCORED, EXPLAINED
    data_exists, \* os.path.exists(self.data_path)
    listed,      \* the files os.listdir has yielded so far, in order
    enrol_dfs,   \* the frames read so far, by category
    bio_dfs,
    demo_dfs,
    files_found,
    df,          \* the table returned by load_and_merge_data / scored by the engine
    error,       \* the exception that ended the script, "none" if none
    warnings,    \* the warnings printed
    disk,        \* the artifacts written: <<>> when absent, <<content>> when present
    model,       \* the fitted IsolationForest: <<>> before fit, <<m>> after
    shap_values, \* explainer.shap_values(X): one row of attributions per region
    explainer,   \* shap.TreeExplainer: <<>> before it is built, then the model it
                 \* was built on and the rows it explained
    seeded,      \* what the libraries have computed so far under the fixed seed
    run,         \* how many times engine.py has been started
    caller_df,   \* the table as the caller of train_and_score sees it
    dash_df      \* the frame the dashboard works on

vars == <<pc, stage, data_exists, listed, enrol_dfs, bio_dfs, demo_dfs, files_found,
          df, error, warnings, disk, model, shap_values, explainer, seeded, run, caller_df,
          dash_df>>

loader == <<data_exists, listed, enrol_dfs, bio_dfs, demo_dfs, files_found>>

NoDisk ==
    [daily_timeseries |-> <<>>, master_processed_data |-> <<>>,
     final_scored_data |-> <<>>, isolation_forest |-> <<>>,
     final_scored_data_geocoded |-> <<>>]

\* nothing computed yet by the seeded libraries
NoMemo == [fit |-> <<>>, shap |-> <<>>]

\* preprocessing.py is started on a data folder
InitPre ==
    /\ pc = "pre_start"
    /\ stage = "RAW"
    /\ data_exists \in BOOLEAN
    /\ listed = <<>>
    /\ enrol_dfs = <<>>
    /\ bio_dfs = <<>>
    /\ demo_dfs = <<>>
    /\ files_found = 0
    /\ df = EmptyFrame
    /\ error = "none"
    /\ warnings = {}
    /\ disk = NoDisk
    /\ model = <<>>
    /\ shap_values = <<>>
    /\ explainer = <<>>
    /\ seeded = NoMemo
    /\ run = 1
    /\ caller_df = EmptyFrame
    /\ dash_df = EmptyFrame

\* engine.py is started after an earlier preprocessing.py run left (or did
\* not leave) its table in data/master_processed_data.csv
InitEng ==
    /\ pc = "eng_start"
    /\ disk \in {NoDisk} \cup {[NoDisk EXCEPT !.master_processed_data = <<t>>] : t \in EngineTables}
    /\ stage = IF disk.master_processed_data = <<>> THEN "RAW" ELSE "FEATURED"
    /\ data_exists = TRUE
    /\ listed = <<>>
    /\ enrol_dfs = <<>>
    /\ bio_dfs = <<>>
    /\ demo_dfs = <<>>
    /\ files_found = 0
    /\ df = EmptyFrame
    /\ error = "none"
    /\ warnings = {}
    /\ model = <<>>
    /\ shap_values = <<>>
    /\ explainer = <<>>
    /\ seeded = NoMemo
    /\ run = 1
    /\ caller_df = EmptyFrame
    /\ dash_df = EmptyFrame

Init == InitPre \/ InitEng

\* lines 17-19: the data folder must exist
ScanFolder ==
    /\ pc = "pre_start"
    /\ IF data_exists
       THEN pc' = "pre_loop" /\ error' = error
       ELSE pc' = "halted" /\ error' = "FileNotFoundError"
    /\ UNCHANGED <<dash_df, stage, data_exists, listed, enrol_dfs, bio_dfs, demo_dfs, files_found,
                   df, warnings, disk, model, shap_values, explainer, seeded, run, caller_df>>

\* LoadFile with files_found incremented before the read is attempted
LoadFileCountsUnreadable(f) ==
    /\ pc = "pre_loop"
    /\ Len(listed) < MaxFiles
    /\ listed' = Append(listed, f)
    /\ files_found' = IF f.kind \in Categories THEN files_found + 1 ELSE files_found
    /\ IF f.kind \in Categories /\ ~f.readable
       THEN /\ warnings' = warnings \cup {"could_not_read"}
            /\ UNCHANGED <<enrol_dfs, bio_dfs, demo_dfs, pc>>
       ELSE /\ warnings' = warnings
            /\ pc' = pc
            /\ enrol_dfs' = IF f.kind = "enrolment" THEN Append(enrol_dfs, ReadCsv(f)) ELSE enrol_dfs
            /\ bio_dfs' = IF f.kind = "biometric" THEN Append(bio_dfs, ReadCsv(f)) ELSE bio_dfs
            /\ demo_dfs' = IF f.kind = "demographic" THEN Append(demo_dfs, ReadCsv(f)) ELSE demo_dfs
    /\ UNCHANGED <<dash_df, stage, data_exists, df, error, disk, model, shap_values, explainer, seeded, run, caller_df>>

\* lines 23-43: one iteration of the Smart Loader over file f.  A read that
\* raises is caught inside the loop: a warning is printed and the loop goes on.
LoadFile(f) ==
    /\ pc = "pre_loop"
    /\ Len(listed) < MaxFiles
    /\ listed' = Append(listed, f)
    /\ IF f.kind \in Categories /\ ~f.readable
       THEN /\ warnings' = warnings \cup {"could_not_read"}
            /\ UNCHANGED <<enrol_dfs, bio_dfs, demo_dfs, files_found, pc>>
       ELSE /\ warnings' = warnings
            /\ pc' = pc
            /\ enrol_dfs' = IF f.kind = "enrolment" THEN Append(enrol_dfs, ReadCsv(f)) ELSE enrol_dfs
            /\ bio_dfs' = IF f.kind = "biometric" THEN Append(bio_dfs, ReadCsv(f)) ELSE bio_dfs
            /\ demo_dfs' = IF f.kind = "demographic" THEN Append(demo_dfs, ReadCsv(f)) ELSE demo_dfs
            /\ files_found' = IF f.kind \in Categories THEN files_found + 1 ELSE files_found
    /\ UNCHANGED <<dash_df, stage, data_exists, df, error, disk, model, shap_values, explainer, seeded, run, caller_df>>

\* whether line 47 raises
NoValidFiles(found) == found = 0

\* BuildFeatures saving the master table itself, before it returns
BuildFeaturesSavesMaster ==
    /\ pc = "pre_loop"
    /\ IF NoValidFiles(files_found)
       THEN /\ pc' = "halted"
            /\ error' = "ValueError"
            /\ UNCHANGED <<stage, df, warnings, disk>>
       ELSE LET enrol == Concat(enrol_dfs)
                bio == Concat(bio_dfs)
                demo == Concat(demo_dfs)
            IN /\ disk' = [disk EXCEPT !.daily_timeseries = <<TimeSeries(bio, demo)>>,
                                    !.master_processed_data = <<FeatureTable(enrol, bio, demo)>>]
               /\ df' = FeatureTable(enrol, bio, demo)
               /\ warnings' = IF AdultColsMissing(AdultSpike(MasterMerge(enrol, bio, demo)))
                              THEN warnings \cup {"no_adult_update_columns"}
                              ELSE warnings
               /\ stage' = "FEATURED"
               /\ pc' = "pre_returned"
               /\ error' = error
    /\ UNCHANGED <<dash_df, loader, model, shap_values, explainer, seeded, run, caller_df>>

\* lines 45-160: the listing is exhausted; the rest of load_and_merge_data.
\* It raises ValueError when no file was read; otherwise it writes the daily
\* series and returns the feature table.
BuildFeatures ==
    /\ pc = "pre_loop"
    /\ IF NoValidFiles(files_found)
       THEN /\ pc' = "halted"
            /\ error' = "ValueError"
            /\ UNCHANGED <<stage, df, warnings, disk>>
       ELSE LET enrol == Concat(enrol_dfs)
                bio == Concat(bio_dfs)
                demo == Concat(demo_dfs)
            IN /\ disk' = [disk EXCEPT !.daily_timeseries = <<TimeSeries(bio, demo)>>]
               /\ df' = FeatureTable(enrol, bio, demo)
               /\ warnings' = IF AdultColsMissing(AdultSpike(MasterMerge(enrol, bio, demo)))
                              THEN warnings \cup {"no_adult_update_columns"}
                              ELSE warnings
               /\ stage' = "FEATURED"
               /\ pc' = "pre_returned"
               /\ error' = error
    /\ UNCHANGED <<dash_df, loader, model, shap_values, explainer, seeded, run, caller_df>>

\* preprocessing.py line 166: the script saves the returned table
PreMainSave ==
    /\ pc = "pre_returned"
    /\ disk' = [disk EXCEPT !.master_processed_data = <<df>>]
    /\ pc' = "pre_done"
    /\ UNCHANGED <<dash_df, stage, loader, df, error, warnings, model, shap_values, explainer, seeded, run, caller_df>>

\* engine.py lines 62-69: the script loads the saved feature table
EngMainLoad ==
    /\ pc = "eng_start"
    /\ IF disk.master_processed_data = <<>>
       THEN pc' = "eng_done" /\ df' = df
       ELSE pc' = "eng_loaded" /\ df' = ReadTable(disk.master_processed_data)
    /\ caller_df' = df'
    /\ UNCHANGED <<dash_df, stage, loader, error, warnings, disk, model, shap_values, explainer, seeded, run>>

\* train_and_score lines 20-35: fit the forest, then label and score every region
FitAndScore ==
    /\ pc = "eng_loaded"
    /\ LET X == FeatureMatrix(df)
       IN IF FitRaises(X)
          THEN /\ pc' = "halted"
               /\ error' = "ValueError"
               /\ UNCHANGED <<stage, df, model, seeded>>
          ELSE \E scores \in FitScores(X, RandomState, seeded) :
               LET m == Fitted(X, scores, DefaultContamination)
                   labels == [i \in 1..Len(X) |-> Num(Predict(m, i), 1)]
                   scored == [i \in 1..Len(X) |-> Num(Decision100(m, i), 100)]
               IN /\ model' = <<m>>
                  /\ seeded' = [seeded EXCEPT !.fit = <<[X |-> X, scores |-> scores]>>]
                  /\ df' = WithColumn(WithColumn(df, ColLabel, labels), ColScore, scored)
                  /\ stage' = "SCORED"
                  /\ pc' = "eng_scored"
                  /\ error' = error
    /\ caller_df' = PassedByReference(df', caller_df)
    /\ UNCHANGED <<dash_df, loader, warnings, disk, shap_values, explainer, run>>

\* train_and_score lines 37-52: the explainer runs on the fitted model; the
\* library call may raise
Explain ==
    /\ pc = "eng_scored"
    /\ \/ /\ pc' = "halted"
          /\ error' = "ExplainerError"
          /\ UNCHANGED <<stage, df, shap_values, explainer, seeded>>
       \/ \E sv \in ShapRows(ExplainerModel(model[1]), FeatureMatrix(df), seeded) :
          LET factors == [i \in 1..Len(df.rows) |-> Str(PrimaryRiskFactor(sv[i]))]
              risks == [i \in 1..Len(df.rows) |-> RiskStatus(df.rows[i][ColLabel])]
          IN /\ explainer' = <<[model |-> ExplainerModel(model[1]), X |-> FeatureMatrix(df)]>>
             /\ seeded' = [seeded EXCEPT !.shap = <<[model |-> ExplainerModel(model[1]),
                                                     X |-> FeatureMatrix(df), sv |-> sv]>>]
             /\ shap_values' = sv
             /\ df' = WithColumn(WithColumn(df, ColFactor, factors), ColRisk, risks)
             /\ stage' = "EXPLAINED"
             /\ pc' = "eng_explained"
             /\ error' = error
    /\ caller_df' = PassedByReference(df', caller_df)
    /\ UNCHANGED <<dash_df, loader, warnings, disk, model, run>>

\* train_and_score lines 54-59: the model is saved and the table returned
SaveModel ==
    /\ pc = "eng_explained"
    /\ disk' = [disk EXCEPT !.isolation_forest = model]
    /\ pc' = "eng_returned"
    /\ UNCHANGED <<dash_df, stage, loader, df, error, warnings, model, shap_values, explainer, seeded, run, caller_df>>

\* whether the script goes on to line 82 after train_and_score returned
ReportOk(t) == ReportColumns \subseteq Range(t.columns)

\* EngMainReport run as soon as the regions are scored
EngMainReportEarly ==
    /\ pc \in {"eng_scored", "eng_returned"}
    /\ disk' = [disk EXCEPT !.final_scored_data = <<df>>]
    /\ pc' = "eng_done"
    /\ UNCHANGED <<dash_df, stage, loader, df, error, warnings, model, shap_values, explainer, seeded, run, caller_df>>

\* engine.py lines 72-83: the report is printed (KeyError when a selected
\* column is missing) and the final table saved
EngMainReport ==
    /\ pc = "eng_returned"
    /\ IF ReportOk(df)
       THEN /\ disk' = [disk EXCEPT !.final_scored_data = <<df>>]
            /\ pc' = "eng_done"
            /\ error' = error
       ELSE /\ pc' = "halted"
            /\ error' = "KeyError"
            /\ disk' = disk
    /\ UNCHANGED <<dash_df, stage, loader, df, warnings, model, shap_values, explainer, seeded, run, caller_df>>

\* geocoder.py: enrich_anomalies_with_coords, run after engine.py.  Without
\* a critical row the assignment of line 51 receives the empty frame that
\* apply returns, which pandas may reject.
Geocode ==
    /\ pc = "eng_done"
    /\ IF disk.final_scored_data = <<>>
       THEN pc' = "geo_done" /\ disk' = disk
       ELSE LET t == ReadTable(disk.final_scored_data)
            IN \/ /\ CriticalRows(t) = {}
                  /\ pc' = "geo_failed"
                  /\ disk' = disk
               \/ \E found \in [CriticalRows(t) -> BOOLEAN] :
                     /\ disk' = [disk EXCEPT !.final_scored_data_geocoded = <<GeocodedTable(t, found)>>]
                     /\ pc' = "geo_done"
    /\ UNCHANGED <<stage, loader, df, error, warnings, model, shap_values, explainer, seeded,
                   run, caller_df, dash_df>>

\* app.py: the dashboard loads its data and fills the coordinates
DashboardLoad ==
    /\ pc \in {"eng_done", "geo_done", "geo_failed"}
    /\ dash_df' = ProcessCoordinates(LoadDataEngine(disk))
    /\ pc' = "dash_loaded"
    /\ UNCHANGED <<stage, loader, df, error, warnings, disk, model, shap_values, explainer,
                   seeded, run, caller_df>>

Next ==
    \/ ScanFolder
    \/ \E f \in FileCatalogue : LoadFile(f)
    \/ BuildFeatures
    \/ PreMainSave
    \/ EngMainLoad
    \/ FitAndScore
    \/ Explain
    \/ SaveModel
    \/ EngMainReport
    \/ Geocode
    \/ DashboardLoad

Spec == Init /\ [][Next]_vars

\* ------------------------------------------------- engine.py run again
\* how many times engine.py is started
MaxRuns == 2

\* engine.py is started again after a finished or failed run: the new process
\* has nothing in memory and finds the files the earlier runs left
RerunEngine ==
    /\ pc \in {"eng_done", "halted"}
    /\ run < MaxRuns
    /\ run' = run + 1
    /\ pc' = "eng_start"
    /\ stage' = IF disk.master_processed_data = <<>> THEN "RAW" ELSE "FEATURED"
    /\ df' = EmptyFrame
    /\ caller_df' = EmptyFrame
    /\ error' = "none"
    /\ model' = <<>>
    /\ shap_values' = <<>>
    /\ explainer' = <<>>
    /\ UNCHANGED <<dash_df, loader, warnings, disk, seeded>>

NextRerun ==
    \/ EngMainLoad
    \/ FitAndScore
    \/ Explain
    \/ SaveModel
    \/ EngMainReport
    \/ RerunEngine

SpecRerun == InitEng /\ [][NextRerun]_vars

\* ------------------------------------------- the contamination parameter
\* the largest table train_and_score is called on directly
MaxRegions == 22

\* the contamination arguments passed, in percent
Contaminations == {1, 5}

\* the raw scores of n regions, listed in ascending order: k regions at the
\* lower value and the rest at the higher one
StepScores(n) ==
    {[i \in 1..n |-> IF i <= k THEN v[1] ELSE v[2]] :
        k \in 0..n, v \in {w \in ScoreVals \X ScoreVals : w[1] < w[2]}}

\* a caller is about to call train_and_score(df, contamination=c)
InitCall ==
    /\ pc = "call_start"
    /\ stage = "FEATURED"
    /\ data_exists = TRUE
    /\ listed = <<>>
    /\ enrol_dfs = <<>>
    /\ bio_dfs = <<>>
    /\ demo_dfs = <<>>
    /\ files_found = 0
    /\ df = EmptyFrame
    /\ error = "none"
    /\ warnings = {}
    /\ disk = NoDisk
    /\ model = <<>>
    /\ shap_values = <<>>
    /\ explainer = <<>>
    /\ seeded = NoMemo
    /\ run = 1
    /\ caller_df = EmptyFrame
    /\ dash_df = EmptyFrame

\* train_and_score lines 29-34 with contamination c on n regions: the offset
\* of the fitted forest is the c-percentile of the scores, and predict flags
\* the regions below it
ScoreWith(c) ==
    /\ pc = "call_start"
    /\ \E n \in 1..MaxRegions : \E scores \in StepScores(n) :
          model' = <<Fitted([i \in 1..n |-> <<Zero, Zero, Zero>>], scores, c)>>
    /\ stage' = "SCORED"
    /\ pc' = "call_scored"
    /\ UNCHANGED <<dash_df, loader, df, error, warnings, disk, shap_values, explainer, seeded, run, caller_df>>

NextCall == \E c \in Contaminations : ScoreWith(c)

SpecCall == InitCall /\ [][NextCall]_vars

\* ================================================================ claims
\* the readable files of one category among those listed, in listing order
RECURSIVE ReadableFrames(_, _)
ReadableFrames(fs, kind) ==
    IF fs = <<>> THEN <<>>
    ELSE IF Head(fs).kind = kind /\ Head(fs).readable
         THEN <<ReadCsv(Head(fs))>> \o ReadableFrames(Tail(fs), kind)
         ELSE ReadableFrames(Tail(fs), kind)

\* the records of one source, as listed
Source(kind) == Concat(ReadableFrames(listed, kind))

SourceKeys == KeysOf(Source("enrolment")) \cup KeysOf(Source("biometric")) \cup KeysOf(Source("demographic"))

NoRecords == IsEmpty(Source("enrolment")) /\ IsEmpty(Source("biometric")) /\ IsEmpty(Source("demographic"))

\* load_and_merge_data has returned its table (df)
Returned == pc \in {"pre_returned", "pre_done"}

\* C1: the returned table has at most one row per pincode, and every pincode
\* in it occurs in a record of the enrolment, biometric or demographic source.
C1_UniqueSourcedKeys ==
    Returned =>
        /\ \A i, j \in 1..Len(df.rows) :
               df.rows[i][ColPincode] = df.rows[j][ColPincode] => i = j
        /\ FrameKeys(df) \subseteq SourceKeys

\* a pincode with records in two different sources came out as one row
C1_Witness ==
    /\ Returned
    /\ Len(df.rows) = 1
    /\ \E k \in KeysOf(Source("enrolment")) : k \in KeysOf(Source("biometric"))

\* the first column of a source that name matching takes for its adult bracket
SourceAdultCols(raw, marker) ==
    Filter(raw.cols, {c \in Range(raw.cols) : Contains(c, marker) /\ Contains(c, <<"17">>)})

\* the adult update count of region k in a source, zero when k is absent from it
AdultUpdates(raw, marker, k) ==
    IF k \in KeysOf(raw) THEN GroupSum(raw, SourceAdultCols(raw, marker)[1], k) ELSE 0

\* C2: every pincode of any source has a row, and a count the region lacks in
\* a source it is absent from enters the three ratios as zero (for the regions
\* whose adult update column is locatable in every source that records them).
C2_OuterJoinZeroFill ==
    Returned =>
        /\ SourceKeys \subseteq FrameKeys(df)
        /\ \A k \in FrameKeys(df) :
            LET enrol == Source("enrolment")
                bio == Source("biometric")
                demo == Source("demographic")
                a == GroupSum(enrol, ColAdult, k)
                c == GroupSum(enrol, ColChild, k)
            IN ((k \in KeysOf(bio) => SourceAdultCols(bio, <<"bio">>) # <<>>)
                /\ (k \in KeysOf(demo) => SourceAdultCols(demo, <<"demo">>) # <<>>))
               => LET b == AdultUpdates(bio, <<"bio">>, k)
                      d == AdultUpdates(demo, <<"demo">>, k)
                  IN /\ RowOf(df, k)[ColSpike] = Num(a, a + c + 1)
                     /\ RowOf(df, k)[ColVelocity] = Num(b + d, 1)
                     /\ RowOf(df, k)[ColGhost] = Num(d, b + 1)

\* C3: adult_spike_ratio lies in [0,1], velocity_index and ghost_ratio are
\* non-negative, and no denominator is zero.
C3_RatioRanges ==
    Returned =>
        \A i \in 1..Len(df.rows) :
            LET r == df.rows[i]
            IN /\ r[ColSpike][3] > 0 /\ r[ColVelocity][3] > 0 /\ r[ColGhost][3] > 0
               /\ 0 <= r[ColSpike][2] /\ r[ColSpike][2] <= r[ColSpike][3]
               /\ r[ColVelocity][2] >= 0
               /\ r[ColGhost][2] >= 0

\* a region without any enrolment or biometric activity next to one with a
\* positive spike ratio and a positive ghost ratio
C3_Witness ==
    /\ Returned
    /\ \E i \in 1..Len(df.rows) : df.rows[i][ColSpike][2] > 0
    /\ \E i \in 1..Len(df.rows) : df.rows[i][ColGhost][2] > 0
    /\ \E i \in 1..Len(df.rows) : df.rows[i][ColSpike] = Num(0, 1)

\* C4: the builder fails, and returns no table, whenever none of the three
\* sources holds a record.
C4_NoRecordsFails == Returned => ~NoRecords

\* a source is supplied, yet name matching finds no adult column in it
Supplied(kind) == ReadableFrames(listed, kind) # <<>>
AdultColumnUnlocatable ==
    \/ Supplied("biometric") /\ SourceAdultCols(Source("biometric"), <<"bio">>) = <<>>
    \/ Supplied("demographic") /\ SourceAdultCols(Source("demographic"), <<"demo">>) = <<>>

\* C5: with a biometric or demographic source supplied whose adult update
\* column cannot be located, the builder fails and returns no table.
C5_MissingColumnFails == Returned => ~AdultColumnUnlocatable

\* C5 as amended: in that case the builder does not fail; it prints the
\* warning and returns the table with velocity_index = ghost_ratio = 0 in
\* every row.
C5_MissingColumnDefaultsToZero ==
    [][(pc = "pre_loop" /\ pc' # "pre_loop" /\ AdultColumnUnlocatable)
        => /\ pc' = "pre_returned"
           /\ error' = "none"
           /\ "no_adult_update_columns" \in warnings'
           /\ \A i \in 1..Len(df'.rows) :
                  df'.rows[i][ColVelocity] = Zero /\ df'.rows[i][ColGhost] = Zero]_vars

\* a biometric source without adult column next to a demographic source
\* with positive adult updates, returned with zeros
C5_Witness ==
    /\ Returned
    /\ Supplied("biometric") /\ SourceAdultCols(Source("biometric"), <<"bio">>) = <<>>
    /\ \E k \in KeysOf(Source("demographic")) :
           /\ SourceAdultCols(Source("demographic"), <<"demo">>) # <<>>
           /\ AdultUpdates(Source("demographic"), <<"demo">>, k) > 0
           /\ RowOf(df, k)[ColVelocity] = Zero

\* the loader skips exactly the unreadable files, and the table returned is
\* the one built from the readable files alone (none at all: ValueError)
SkipsUnreadable ==
    /\ pc \in {"pre_loop", "pre_returned", "pre_done"} =>
           /\ enrol_dfs = ReadableFrames(listed, "enrolment")
           /\ bio_dfs = ReadableFrames(listed, "biometric")
           /\ demo_dfs = ReadableFrames(listed, "demographic")
    /\ Returned =>
           /\ Supplied("enrolment") \/ Supplied("biometric") \/ Supplied("demographic")
           /\ df = FeatureTable(Source("enrolment"), Source("biometric"), Source("demographic"))
    /\ "could_not_read" \in warnings <=>
           \E i \in 1..Len(listed) : listed[i].kind \in Categories /\ ~listed[i].readable

\* C6: an unreadable file is skipped and the rest is loaded; the unreadable
\* file is the only error recovered locally.
C6_OnlyUnreadableRecovered ==
    SkipsUnreadable /\ (Returned => warnings \subseteq {"could_not_read"})

\* C6 as amended: an unreadable file is skipped and the rest is loaded; the
\* unreadable file and the missing adult update column are the only errors
\* recovered locally.
C6_UnreadableSkipped ==
    SkipsUnreadable /\ (Returned => warnings \subseteq {"could_not_read", "no_adult_update_columns"})

\* a readable file with a record was loaded after an unreadable file of the
\* same category, and its record is in the table
C6_Witness ==
    /\ Returned
    /\ \E i, j \in 1..Len(listed) :
           /\ i < j
           /\ ~listed[i].readable
           /\ listed[j].readable /\ listed[j].kind = listed[i].kind
           /\ listed[j].rows # <<>>
    /\ Len(df.rows) >= 1

\* the engine's table carries the labels and scores / the explanations
Scored == HasCol(df, ColLabel) /\ HasCol(df, ColScore)
Explained == Scored /\ HasCol(df, ColFactor) /\ HasCol(df, ColRisk)

\* two cells hold the same number
SameNum(a, b) == a[2] * b[3] = b[2] * a[3]

\* the number of regions is below 2 or all feature vectors are equal
FewerThanTwoDistinct(X) ==
    \A i, j \in 1..Len(X) : \A h \in 1..3 : SameNum(X[i][h], X[j][h])

\* C7: given fewer than 2 distinct feature vectors the scorer fails: it fits
\* and persists no model and labels no region.
C7_DegenerateSampleFails ==
    (model # <<>> \/ Scored \/ disk.isolation_forest # <<>>)
        => ~FewerThanTwoDistinct(FeatureMatrix(df))

StageRank(st) ==
    CASE st = "RAW" -> 0 [] st = "FEATURED" -> 1 [] st = "SCORED" -> 2 [] st = "EXPLAINED" -> 3

\* C8: the run moves one stage forward at a time, a failed step ends it, and
\* the final scored table is written only by a run that reached EXPLAINED
\* without error.
C8_ForwardOnlyFinalAfterExplained ==
    [][/\ stage' # stage => StageRank(stage') = StageRank(stage) + 1
       /\ error # "none" => stage' = stage /\ disk' = disk
       /\ error' # "none" => disk'.final_scored_data = <<>>
       /\ disk'.final_scored_data # disk.final_scored_data
              => stage = "EXPLAINED" /\ stage' = "EXPLAINED" /\ error' = "none"]_vars

\* the final table was written in a run that went through every stage
C8_Witness ==
    /\ pc = "eng_done"
    /\ stage = "EXPLAINED"
    /\ disk.final_scored_data = <<df>>
    /\ Len(df.rows) = 2

\* the fitted model classifies region i as anomalous: its raw score lies
\* below the offset
Anomalous(i) == 100 * model[1].scores[i] < model[1].offset100

\* C9: every anomaly_label is NORMAL or CRITICAL, CRITICAL exactly for the
\* regions the model classifies as anomalous.
C9_LabelNormalOrCritical ==
    Scored =>
        \A i \in 1..Len(df.rows) :
            /\ df.rows[i][ColLabel] \in {Str("NORMAL"), Str("CRITICAL")}
            /\ df.rows[i][ColLabel] = Str("CRITICAL") <=> Anomalous(i)

\* C9 as amended: anomaly_label is -1 or 1, -1 exactly for the regions the
\* model classifies as anomalous; the text is in risk_status, CRITICAL
\* exactly where anomaly_label is -1 and Low otherwise.
C9_LabelMinusOneRiskCritical ==
    /\ Scored =>
        \A i \in 1..Len(df.rows) :
            /\ df.rows[i][ColLabel] \in {Num(-1, 1), Num(1, 1)}
            /\ df.rows[i][ColLabel] = Num(-1, 1) <=> Anomalous(i)
    /\ Explained =>
        \A i \in 1..Len(df.rows) :
            /\ df.rows[i][ColRisk] \in {Str("CRITICAL"), Str("Low")}
            /\ df.rows[i][ColRisk] = Str("CRITICAL") <=> Anomalous(i)

\* one region came out CRITICAL and the other Low
C9_Witness ==
    /\ Explained
    /\ \E i, j \in 1..Len(df.rows) :
           /\ df.rows[i][ColRisk] = Str("CRITICAL") /\ df.rows[i][ColLabel] = Num(-1, 1)
           /\ df.rows[j][ColRisk] = Str("Low") /\ df.rows[j][ColLabel] = Num(1, 1)

\* the position of a feature name in the fixed order
FeatureIndex(cell) == CHOOSE j \in 1..3 : cell = Str(features[j])

\* C10: primary_risk_factor is one of the three feature names, its absolute
\* attribution is the greatest of the region, and among equal greatest ones
\* it is the earliest in the order adult_spike_ratio, velocity_index,
\* ghost_ratio.
C10_PrimaryFactorIsFirstMaximum ==
    Explained =>
        \A i \in 1..Len(df.rows) :
            /\ df.rows[i][ColFactor] \in {Str(features[j]) : j \in 1..3}
            /\ LET p == FeatureIndex(df.rows[i][ColFactor])
               IN /\ \A h \in 1..3 : Abs(shap_values[i][p]) >= Abs(shap_values[i][h])
                  /\ \A h \in 1..(p - 1) : Abs(shap_values[i][h]) < Abs(shap_values[i][p])

\* velocity_index and ghost_ratio tie, with opposite signs, above
\* adult_spike_ratio, and velocity_index is named
C10_Witness ==
    /\ Explained
    /\ \E i \in 1..Len(df.rows) :
           /\ shap_values[i] = <<0, -1, 1>>
           /\ df.rows[i][ColFactor] = Str(ColVelocity)

\* train_and_score has returned
TrainReturned == pc \in {"eng_returned", "eng_done"} \/ (pc = "halted" /\ error = "KeyError")

\* C11: the attributions are computed on the very model that labelled and
\* scored the regions of the run, over the same feature rows, and the model
\* saved by the run is that model.
C11_AttributionOnScoringModel ==
    /\ explainer # <<>> =>
           /\ model = <<explainer[1].model>>
           /\ explainer[1].X = model[1].X
           /\ explainer[1].X = FeatureMatrix(df)
           /\ Len(shap_values) = Len(explainer[1].X)
           /\ \A i \in 1..Len(df.rows) :
                  /\ df.rows[i][ColLabel] = Num(Predict(explainer[1].model, i), 1)
                  /\ df.rows[i][ColScore] = Num(Decision100(explainer[1].model, i), 100)
    /\ (TrainReturned /\ explainer # <<>>) => disk.isolation_forest = <<explainer[1].model>>

\* a run over two regions, one of them flagged, has explained them and saved
\* its model
C11_Witness ==
    /\ pc = "eng_done"
    /\ explainer # <<>>
    /\ disk.isolation_forest = model
    /\ Len(explainer[1].X) = 2
    /\ \E i \in 1..2 : df.rows[i][ColLabel] = Num(-1, 1)

\* the number of regions model m labels -1
CriticalCount(m) == Cardinality({i \in 1..Len(m.scores) : Predict(m, i) = -1})

\* C12: on the same regions with the same raw scores, contamination 0.05
\* never flags fewer regions than contamination 0.01.
C12_HigherContaminationNoFewerCritical ==
    pc = "call_scored" =>
        LET m == model[1]
            low == Fitted(m.X, m.scores, 1)
            high == Fitted(m.X, m.scores, 5)
        IN /\ m \in {low, high}
           /\ m = low => CriticalCount(m) <= CriticalCount(high)
           /\ m = high => CriticalCount(low) <= CriticalCount(m)

\* contamination 0.05 flags regions that contamination 0.01 leaves unflagged
C12_Witness ==
    /\ pc = "call_scored"
    /\ model[1] = Fitted(model[1].X, model[1].scores, 5)
    /\ CriticalCount(Fitted(model[1].X, model[1].scores, 1)) < CriticalCount(model[1])

\* C13: a later run of the scorer on the same table gives every region the
\* label and the score the earlier run gave it, whatever the earlier run left
\* in memory or on disk.
C13_RerunSameLabelsAndScores ==
    (run > 1 /\ Scored /\ disk.final_scored_data # <<>>) =>
        LET prev == disk.final_scored_data[1]
        IN /\ Len(df.rows) = Len(prev.rows)
           /\ \A i \in 1..Len(df.rows) :
                  /\ df.rows[i][ColPincode] = prev.rows[i][ColPincode]
                  /\ df.rows[i][ColLabel] = prev.rows[i][ColLabel]
                  /\ df.rows[i][ColScore] = prev.rows[i][ColScore]

\* the second run has scored its regions, one of them flagged, with the
\* table and the model of the first run still on disk
C13_Witness ==
    /\ run = 2
    /\ pc = "eng_scored"
    /\ disk.final_scored_data # <<>>
    /\ disk.isolation_forest # <<>>
    /\ \E i \in 1..Len(df.rows) : df.rows[i][ColLabel] = Num(-1, 1)

\* the sources hold enrolment records and no biometric or demographic record
EnrolmentOnly ==
    /\ ~IsEmpty(Source("enrolment"))
    /\ IsEmpty(Source("biometric"))
    /\ IsEmpty(Source("demographic"))

\* C14: on enrolment records only the Feature Builder does not fail, and it
\* returns one row per enrolment pincode, each with velocity_index = 0 and
\* ghost_ratio = 0.
C14_EnrolmentOnlyZeroRatios ==
    /\ (pc = "halted" /\ error = "ValueError") => ~EnrolmentOnly
    /\ (Returned /\ EnrolmentOnly) =>
           /\ FrameKeys(df) = KeysOf(Source("enrolment"))
           /\ Len(df.rows) = Cardinality(KeysOf(Source("enrolment")))
           /\ \A i \in 1..Len(df.rows) :
                  /\ df.rows[i][ColVelocity] = Zero
                  /\ df.rows[i][ColGhost] = Zero

\* two enrolment files with nonzero counts for two pincodes, and nothing
\* else, came out as two rows
C14_Witness ==
    /\ Returned
    /\ EnrolmentOnly
    /\ Len(df.rows) = 2
    /\ \E i \in 1..2 : df.rows[i][ColAdult] # Zero

\* load_and_merge_data is running
Building == pc \in {"pre_start", "pre_loop"}

\* C15 as stated: a call of the Feature Builder writes no file.
C15_WritesNoFile == [][Building => disk' = disk]_vars

\* C15: the only file a call of the Feature Builder writes is the daily
\* series, which it writes when it returns its table; a call that fails
\* writes nothing, and the files read so far stay as they were read.
C15_WritesOnlyDailySeries ==
    [][Building =>
          /\ \A f \in DOMAIN disk \ {"daily_timeseries"} : disk'[f] = disk[f]
          /\ disk'.daily_timeseries # disk.daily_timeseries => pc' = "pre_returned"
          /\ pc' = "pre_returned" =>
                 disk'.daily_timeseries = <<TimeSeries(Concat(bio_dfs), Concat(demo_dfs))>>
          /\ pc' = "halted" => disk' = disk
          /\ SubSeq(listed', 1, Len(listed)) = listed]_vars

\* the call has returned a table with a row and the daily series is on
\* disk, the master table is not
C15_Witness ==
    /\ pc = "pre_returned"
    /\ Len(df.rows) > 0
    /\ disk.daily_timeseries # <<>>
    /\ disk.master_processed_data = <<>>

\* every row of the final table f is in d at the same position with the
\* cells it has in f
KeepsRegions(d, f) ==
    /\ Len(d.rows) = Len(f.rows)
    /\ \A c \in Range(f.columns) : HasCol(d, c)
    /\ \A i \in 1..Len(f.rows) : \A c \in Range(f.columns) : d.rows[i][c] = f.rows[i][c]

\* engine.py has ended and the collaborators may run
AfterEngine == pc \in {"eng_done", "geo_done", "geo_failed"}

\* C16: the geocoder and the dashboard loader leave the final scored table
\* file as it is, and the geocoded table and the dashboard's frame hold every
\* region of the final table, in its row, with its label, risk status, score
\* and primary risk factor.
C16_CollaboratorsKeepFinalTable ==
    [][AfterEngine =>
          /\ disk'.final_scored_data = disk.final_scored_data
          /\ (disk'.final_scored_data_geocoded # <<>>) =>
                 KeepsRegions(disk'.final_scored_data_geocoded[1], disk'.final_scored_data[1])
          /\ (pc' = "dash_loaded" /\ disk'.final_scored_data # <<>>) =>
                 KeepsRegions(dash_df', disk'.final_scored_data[1])
          /\ (pc' = "dash_loaded" /\ disk'.final_scored_data = <<>>) => (dash_df' = EmptyFrame)
      ]_vars

\* the dashboard has loaded a geocoded table of two regions in which the
\* critical one was located
C16_Witness ==
    /\ pc = "dash_loaded"
    /\ disk.final_scored_data_geocoded # <<>>
    /\ Len(dash_df.rows) = 2
    /\ \E i \in 1..2 :
           /\ dash_df.rows[i][ColRisk] = Str("CRITICAL")
           /\ dash_df.rows[i][ColGeoAccuracy] = Str("High")
           /\ dash_df.rows[i][ColLat] = Located.lat
    /\ \E i \in 1..2 :
           /\ dash_df.rows[i][ColRisk] = Str("Low")
           /\ dash_df.rows[i][ColLat] \notin {Zero, NaN}

\* the state of the first record of pincode k in a source
FirstState(raw, k) ==
    raw.rows[CHOOSE i \in 1..Len(raw.rows) :
                 /\ raw.rows[i].pincode = k
                 /\ \A h \in 1..(i - 1) : raw.rows[h].pincode # k].state

\* the first state observed for pincode k among the sources that record it
FirstSeenState(k) ==
    IF k \in KeysOf(Source("enrolment")) THEN FirstState(Source("enrolment"), k)
    ELSE IF k \in KeysOf(Source("biometric")) THEN FirstState(Source("biometric"), k)
    ELSE FirstState(Source("demographic"), k)

\* C17: every region of the output carries the state of the first record
\* observed for its pincode, also when the pincode occurs only in the
\* biometric or the demographic source.
C17_FirstSeenStateForEveryRegion ==
    Returned =>
        \A k \in FrameKeys(df) :
            /\ HasCol(df, ColState)
            /\ RowOf(df, k)[ColState] = Str(FirstSeenState(k))

\* train_and_score has been called on the table engine.py loaded and has
\* scored it
ScorerCalled ==
    /\ disk.master_processed_data # <<>>
    /\ \/ pc \in {"eng_scored", "eng_explained", "eng_returned", "eng_done"}
       \/ pc = "halted" /\ error \in {"ExplainerError", "KeyError"}

\* table t holds the rows of the table loaded, in their order, every cell
\* of the loaded columns as it was
RowsKept(t, loaded) ==
    /\ Len(t.rows) = Len(loaded.rows)
    /\ \A i \in 1..Len(loaded.rows) : \A c \in Range(loaded.columns) :
           HasCol(t, c) /\ t.rows[i][c] = loaded.rows[i][c]

\* the columns t has and the loaded table lacks
AddedColumns(t, loaded) == Range(t.columns) \ Range(loaded.columns)

\* C18 as stated: the scorer adds the label, score and primary_risk_factor
\* columns to what it returns and leaves the caller's table as it was.
C18_CallerTableNotAltered ==
    ScorerCalled =>
        LET loaded == ReadTable(disk.master_processed_data)
        IN /\ RowsKept(df, loaded)
           /\ Explained => AddedColumns(df, loaded) = {ColLabel, ColScore, ColFactor}
           /\ caller_df = loaded

\* C18: the scorer keeps the rows, their order and every cell of the table
\* it was passed; it adds anomaly_label and anomaly_score, then
\* primary_risk_factor and risk_status, and it adds them to the caller's own
\* table, which is the table it returns.
C18_ColumnsAddedInPlace ==
    ScorerCalled =>
        LET loaded == ReadTable(disk.master_processed_data)
        IN /\ RowsKept(df, loaded)
           /\ AddedColumns(df, loaded) =
                  IF Explained THEN {ColLabel, ColScore, ColFactor, ColRisk} ELSE {ColLabel, ColScore}
           /\ caller_df = df

\* train_and_score has returned the caller's table of two different regions
\* with the four columns added
C18_Witness ==
    /\ pc = "eng_returned"
    /\ Len(df.rows) = 2
    /\ df.rows[1][ColSpike] # df.rows[2][ColSpike]
    /\ caller_df = df
    /\ HasCol(caller_df, ColRisk)
    /\ ~HasCol(ReadTable(disk.master_processed_data), ColRisk)

====
